---------------------------- MODULE Spec2Model ----------------------------
(***************************************************************************)
(* The equity-curve Monte Carlo script, src/equity_simulation.py, as a     *)
(* state machine.  One run of the script after a click on "Run Simulation" *)
(* is: the email check (72-75), the submission to the Google Form (78-81), *)
(* the trial loop (95-128, one inner iteration per trade) and the          *)
(* reduction of the ensemble (130-148).                                    *)
(*                                                                         *)
(* Numbers.  The script computes in floating point.  The model computes    *)
(* the same expressions exactly, on integers:                              *)
(*   - win_rate and risk_per_trade are whole percents, risk_reward a whole *)
(*     multiple of the risk (all three are points of the widgets' grids);  *)
(*   - a balance is held in units of 1/BalScale dollar, where BalScale is  *)
(*     2 * Den^n_trades and Den is the denominator of the two per-trade    *)
(*     factors, so that every multiplication of the loop and the average   *)
(*     of two final balances are exact;                                    *)
(*   - a drawdown (a fraction of the peak) is held in units of 1/DDScale;  *)
(*   - a uniform draw in [0,1) is d/100 for a whole d in 0..99.            *)
(* Rounding of the floating-point operations is outside the model.         *)
(* Indices are 1-based here and 0-based in the script.                     *)
(***************************************************************************)
EXTENDS Integers, Sequences, FiniteSets

(***************************************************************************)
(* Bounds of the model.                                                    *)
(***************************************************************************)
MaxTrades == 3
MaxSims == 4
\* The most draws one run makes: n_trades * n_simulations.
MaxDraws == 9

(***************************************************************************)
(* The inputs the model enumerates; each is inside its widget's range.     *)
(***************************************************************************)
WinRates == {0, 45, 100}
RiskRewards == {1, 2}
RiskPerTrades == {5, 10}
Capitals == {100, 1000}
Emails ==
  { <<>>,
    <<"a">>,
    <<"a", "@", "a">>,
    <<"@", "a", ".", "a">>,
    <<"a", "@", ".", "a">>,
    <<"a", "@", "a", ".", "-">>,
    <<"a", "-", "@", "a", ".", "a">> }
HttpOutcomes == {"200", "302", "500", "exception"}
\* Values of np.random.rand(), in hundredths.
Draws == {0, 44, 45, 99}

VARIABLES
  \* the form (53-62) and the configuration (19-30)
  email, win_rate, risk_reward, risk_per_trade, n_trades, initial_capital,
  form_configured,
  \* the run: position, the gate's locals, what the page shows
  pc, ok, err, posted, shown,
  \* the trial loop (89-128); i_trial and i_trade count the iterations of
  \* the loops of lines 95 and 106
  i_trial, i_trade, n_simulations, results, drawdowns, consecutive_wins_list,
  consecutive_losses_list, balance, balances, max_consec_win,
  max_consec_loss, current_win, current_loss, peak, max_dd,
  \* the reduction (130-148)
  best_result, worst_result, median_result, best_path, worst_path,
  median_path, best_return, worst_return, median_return, expectancy_r,
  avg_drawdown, avg_max_win, avg_max_loss

widgets == << email, win_rate, risk_reward, risk_per_trade, n_trades,
              initial_capital >>
params == << win_rate, risk_reward, risk_per_trade, n_trades,
             initial_capital >>
gate == << ok, err, posted >>
trial == << i_trade, balance, balances, max_consec_win, max_consec_loss, current_win,
            current_loss, peak, max_dd >>
ensemble == << i_trial, n_simulations, results, drawdowns, consecutive_wins_list,
               consecutive_losses_list >>
reduction == << best_result, worst_result, median_result, best_path,
                worst_path, median_path, best_return, worst_return,
                median_return, expectancy_r, avg_drawdown, avg_max_win,
                avg_max_loss >>
vars == << widgets, form_configured, pc, gate, shown, trial, ensemble,
           reduction >>

----------------------------------------------------------------------------
(***************************************************************************)
(* Arithmetic helpers.                                                     *)
(***************************************************************************)
RECURSIVE GCD(_, _)
GCD(a, b) == IF b = 0 THEN a ELSE GCD(b, a % b)

RECURSIVE Pow(_, _)
Pow(b, e) == IF e = 0 THEN 1 ELSE b * Pow(b, e - 1)

RECURSIVE Sum(_)
Sum(xs) == IF xs = <<>> THEN 0 ELSE Head(xs) + Sum(Tail(xs))

Max2(a, b) == IF a >= b THEN a ELSE b

Last(s) == s[Len(s)]

\* The denominator of the per-trade factors and the two numerators:
\* 1 + (risk_per_trade/100)*risk_reward = WinNum/Den (109) and
\* 1 - risk_per_trade/100 = LossNum/Den (114).
Den == 100 \div GCD(100, risk_per_trade)
WinNum == (100 + risk_per_trade * risk_reward) \div GCD(100, risk_per_trade)
LossNum == (100 - risk_per_trade) \div GCD(100, risk_per_trade)

\* Units: a balance of x dollars is the integer x * BalScale, a drawdown
\* fraction f the integer f * DDScale.
DDScale == Pow(Den, n_trades)
BalScale == 2 * DDScale


----------------------------------------------------------------------------
(***************************************************************************)
(* The gate (32-44, 72-81).                                                *)
(***************************************************************************)
\* The character classes of email_pattern (72): \w, and [\w\.-].
WordChars == {"a"}
LocalChars == WordChars \cup {".", "-"}

\* re.match(r"^[\w\.-]+@[\w\.-]+\.\w+$", email) (72-73): a non-empty local
\* part, "@", a non-empty domain, a "." and a non-empty run of word
\* characters up to the end.  at is the position of "@", dot that of the
\* "." the pattern's \. matches.
EmailMatches(e) ==
  \E at \in 1..Len(e), dot \in 1..Len(e) :
    /\ 1 < at
    /\ at + 1 < dot
    /\ dot < Len(e)
    /\ e[at] = "@"
    /\ e[dot] = "."
    /\ \A i \in 1..(at - 1) : e[i] \in LocalChars
    /\ \A i \in (at + 1)..(dot - 1) : e[i] \in LocalChars
    /\ \A i \in (dot + 1)..Len(e) : e[i] \in WordChars

\* A variant of EmailRejected: the pattern is not consulted.
EmailRejected_EmptyOnly(e) == e = <<>>

\* `not email or not re.match(email_pattern, email)` (73).
EmailRejected(e) == e = <<>> \/ ~EmailMatches(e)

\* resp.status_code in (200, 302) (40); an exception gives False (43-44).
StatusOk(outcome) == outcome \in {"200", "302"}

\* The message submit_email_to_google_form returns beside False (34, 42, 44).
SubmitError(outcome) ==
  IF StatusOk(outcome) THEN "None"
  ELSE IF outcome = "exception" THEN "exception" ELSE "Status"

----------------------------------------------------------------------------
(***************************************************************************)
(* One trade (106-123).                                                    *)
(***************************************************************************)
\* A variant of IsWin: the comparison of line 107 as <=.
IsWin_Le(d) == d <= win_rate

\* np.random.rand() < win_rate / 100 (107), for the draw d/100.
IsWin(d) == d < win_rate

\* balance *= 1 + (risk_per_trade/100) * risk_reward (109) and
\* balance *= 1 - risk_per_trade/100 (114).  The division by Den is exact:
\* before its k-th trade a balance is a multiple of Den^(n_trades - k + 1).
TradeBalance(win, b) ==
  IF win THEN (b \div Den) * WinNum ELSE (b \div Den) * LossNum

\* current_win += 1 (110) or current_win = 0 (117).
NextCurrentWin(win, cw) == IF win THEN cw + 1 ELSE 0

\* A variant of NextCurrentLoss: line 112 left out.
NextCurrentLoss_NoReset(win, cl) == IF win THEN cl ELSE cl + 1

\* current_loss = 0 (112) or current_loss += 1 (115).
NextCurrentLoss(win, cl) == IF win THEN 0 ELSE cl + 1

\* peak = max(peak, balance) (119).
NextPeak(pk, b) == Max2(pk, b)

\* A variant of Drawdown: the drawdown as a percentage, not a fraction.
Drawdown_Percent(pk, b) ==
  LET g == GCD(pk - b, pk)
  IN  ((pk - b) \div g) * (DDScale \div (pk \div g)) * 100

\* dd = (peak - balance) / peak (120), in units of 1/DDScale.  The quotient
\* is taken in lowest terms; its denominator divides DDScale because the
\* balance is the peak times the factors of the trades since the peak.
Drawdown(pk, b) ==
  LET g == GCD(pk - b, pk)
  IN  ((pk - b) \div g) * (DDScale \div (pk \div g))

\* A variant of AppendBalance: the last balance is overwritten.
AppendBalance_Overwrite(bs, b) == [bs EXCEPT ![Len(bs)] = b]

\* balances.append(balance) (123).
AppendBalance(bs, b) == Append(bs, b)

----------------------------------------------------------------------------
(***************************************************************************)
(* The reduction (130-148).                                                *)
(***************************************************************************)
\* results[:, -1] (131).
EndBalances(rs) == [i \in 1..Len(rs) |-> Last(rs[i])]

\* A variant of ArgMax: the index of the smallest value.
ArgMax_Smallest(xs) ==
  CHOOSE i \in 1..Len(xs) :
    /\ \A j \in 1..Len(xs) : xs[j] >= xs[i]
    /\ \A j \in 1..(i - 1) : xs[j] > xs[i]

\* np.argmax (137): the first index of the largest value.
ArgMax(xs) ==
  CHOOSE i \in 1..Len(xs) :
    /\ \A j \in 1..Len(xs) : xs[j] <= xs[i]
    /\ \A j \in 1..(i - 1) : xs[j] < xs[i]

\* np.argmin (138): the first index of the smallest value.
ArgMin(xs) ==
  CHOOSE i \in 1..Len(xs) :
    /\ \A j \in 1..Len(xs) : xs[j] >= xs[i]
    /\ \A j \in 1..(i - 1) : xs[j] > xs[i]

\* The orders of the indices in S that put their values in ascending order:
\* an index of a smallest value first, then an order of the rest.
RECURSIVE AscendingOrders(_, _)
AscendingOrders(S, xs) ==
  IF S = {} THEN { <<>> }
  ELSE UNION { { <<i>> \o p : p \in AscendingOrders(S \ {i}, xs) } :
               i \in { j \in S : \A k \in S : xs[j] <= xs[k] } }

\* np.argsort (139): a permutation of the indices that puts the values in
\* ascending order.  The default sort is not stable, so the order of equal
\* values is any.
ArgSorts(xs) == AscendingOrders(1..Len(xs), xs)

\* The values in ascending order (np.median sorts a copy of its argument).
RECURSIVE Insert(_, _)
Insert(x, s) ==
  IF s = <<>> THEN << x >>
  ELSE IF x <= Head(s) THEN << x >> \o s
  ELSE << Head(s) >> \o Insert(x, Tail(s))

RECURSIVE Sorted(_)
Sorted(xs) == IF xs = <<>> THEN <<>> ELSE Insert(Head(xs), Sorted(Tail(xs)))

\* A variant of MedianPos: (len(end_balances) - 1)//2.
MedianPos_Lower(n) == (n - 1) \div 2 + 1

\* len(end_balances)//2 (139), as a 1-based position.
MedianPos(n) == n \div 2 + 1

\* np.median (135): the middle value of the sorted values, the mean of the
\* two middle values for an even count.
Median(xs) ==
  LET n == Len(xs)
      s == Sorted(xs)
  IN  IF n % 2 = 1 THEN s[(n + 1) \div 2]
      ELSE (s[n \div 2] + s[n \div 2 + 1]) \div 2

\* (x / initial_capital - 1) * 100 (141-143), in units of 1/BalScale percent.
Return(x) == (x \div initial_capital - BalScale) * 100

\* ((win_rate/100) * risk_reward) - ((1 - win_rate/100) * 1) (145), in
\* hundredths of R.
Expectancy == win_rate * risk_reward - (100 - win_rate)

\* np.mean(drawdowns) * 100 (146), as the fraction <<numerator, denominator>>
\* of a percent in units of 1/DDScale.
AvgDrawdown(ds) == << Sum(ds) * 100, Len(ds) >>

\* int(np.mean(xs)) (147-148): the mean truncated toward zero.
IntMean(xs) == Sum(xs) \div Len(xs)

----------------------------------------------------------------------------
(***************************************************************************)
(* The state before any click: the form holds some inputs, nothing has run.*)
(* A variable the script has not assigned yet holds 0, FALSE, "None" or    *)
(* the empty sequence.                                                     *)
(***************************************************************************)
NoRun ==
  /\ ok = FALSE /\ err = "None" /\ posted = FALSE /\ shown = {}
  /\ i_trial = 0 /\ i_trade = 0
  /\ n_simulations = 0
  /\ results = <<>> /\ drawdowns = <<>>
  /\ consecutive_wins_list = <<>> /\ consecutive_losses_list = <<>>
  /\ balance = 0 /\ balances = <<>>
  /\ max_consec_win = 0 /\ max_consec_loss = 0
  /\ current_win = 0 /\ current_loss = 0
  /\ peak = 0 /\ max_dd = 0
  /\ best_result = 0 /\ worst_result = 0 /\ median_result = 0
  /\ best_path = <<>> /\ worst_path = <<>> /\ median_path = <<>>
  /\ best_return = 0 /\ worst_return = 0 /\ median_return = 0
  /\ expectancy_r = 0 /\ avg_drawdown = <<0, 1>>
  /\ avg_max_win = 0 /\ avg_max_loss = 0

Init ==
  /\ email \in Emails
  /\ win_rate \in WinRates
  /\ risk_reward \in RiskRewards
  /\ risk_per_trade \in RiskPerTrades
  /\ n_trades \in 1..MaxTrades
  /\ initial_capital \in Capitals
  /\ form_configured \in BOOLEAN
  /\ pc = "idle"
  /\ NoRun

\* The script is not in the middle of a run: it waits for the next event.
Waiting == pc \in {"idle", "stopped", "done"}

\* A rerun starts from a fresh namespace and an empty page.
FreshRun ==
  /\ ok' = FALSE /\ err' = "None" /\ posted' = FALSE /\ shown' = {}
  /\ i_trial' = 0 /\ i_trade' = 0
  /\ n_simulations' = 0
  /\ results' = <<>> /\ drawdowns' = <<>>
  /\ consecutive_wins_list' = <<>> /\ consecutive_losses_list' = <<>>
  /\ balance' = 0 /\ balances' = <<>>
  /\ max_consec_win' = 0 /\ max_consec_loss' = 0
  /\ current_win' = 0 /\ current_loss' = 0
  /\ peak' = 0 /\ max_dd' = 0
  /\ best_result' = 0 /\ worst_result' = 0 /\ median_result' = 0
  /\ best_path' = <<>> /\ worst_path' = <<>> /\ median_path' = <<>>
  /\ best_return' = 0 /\ worst_return' = 0 /\ median_return' = 0
  /\ expectancy_r' = 0 /\ avg_drawdown' = <<0, 1>>
  /\ avg_max_win' = 0 /\ avg_max_loss' = 0

\* The user changes one widget (53-62): the script reruns with
\* run_simulation False (64, 69) and shows the form alone.
EditWidget ==
  /\ Waiting
  /\ \/ email' \in Emails \ {email}
        /\ UNCHANGED params
     \/ win_rate' \in WinRates \ {win_rate}
        /\ UNCHANGED << email, risk_reward, risk_per_trade, n_trades,
                        initial_capital >>
     \/ risk_reward' \in RiskRewards \ {risk_reward}
        /\ UNCHANGED << email, win_rate, risk_per_trade, n_trades,
                        initial_capital >>
     \/ risk_per_trade' \in RiskPerTrades \ {risk_per_trade}
        /\ UNCHANGED << email, win_rate, risk_reward, n_trades,
                        initial_capital >>
     \/ n_trades' \in (1..MaxTrades) \ {n_trades}
        /\ UNCHANGED << email, win_rate, risk_reward, risk_per_trade,
                        initial_capital >>
     \/ initial_capital' \in Capitals \ {initial_capital}
        /\ UNCHANGED << email, win_rate, risk_reward, risk_per_trade,
                        n_trades >>
  /\ pc' = "idle"
  /\ FreshRun
  /\ UNCHANGED form_configured

\* A click on Run Simulation (64, 69): the script reruns and enters the
\* branch of line 69.
Click ==
  /\ Waiting
  /\ pc' = "check_email"
  /\ FreshRun
  /\ UNCHANGED << widgets, form_configured >>

\* The email check (72-75).
CheckEmail ==
  /\ pc = "check_email"
  /\ IF EmailRejected(email)
       THEN /\ shown' = shown \cup {"error_email"}
            /\ pc' = "stopped"
       ELSE /\ shown' = shown
            /\ pc' = "submit"
  /\ UNCHANGED << widgets, form_configured, gate, trial, ensemble,
                  reduction >>

\* ok, err = submit_email_to_google_form(email) (78, 32-44).
SubmitEmail ==
  /\ pc = "submit"
  /\ IF ~form_configured
       THEN /\ ok' = FALSE
            /\ err' = "config missing"
            /\ posted' = posted
       ELSE \E outcome \in HttpOutcomes :
              /\ posted' = TRUE
              /\ ok' = StatusOk(outcome)
              /\ err' = SubmitError(outcome)
  /\ pc' = "submitted"
  /\ UNCHANGED << widgets, form_configured, shown, trial, ensemble,
                  reduction >>

\* The test of ok (79-81), the success message (83) and the empty lists of
\* the ensemble (89-93).  The script sets n_simulations to 1000; the model
\* runs the loop for every count up to MaxSims that keeps the run within
\* MaxDraws draws.
AfterSubmit ==
  /\ pc = "submitted"
  /\ IF ~ok
       THEN /\ shown' = shown \cup {"error_submit"}
            /\ pc' = "stopped"
            /\ UNCHANGED ensemble
       ELSE /\ shown' = shown \cup {"success"}
            /\ n_simulations' \in
                 { n \in 1..MaxSims : n * n_trades <= MaxDraws }
            /\ i_trial' = 0
            /\ results' = <<>>
            /\ drawdowns' = <<>>
            /\ consecutive_wins_list' = <<>>
            /\ consecutive_losses_list' = <<>>
            /\ pc' = "trial"
  /\ UNCHANGED << widgets, form_configured, gate, trial, reduction >>

\* The head of one trial (95-104).
StartTrial ==
  /\ pc = "trial"
  /\ i_trial < n_simulations
  /\ i_trial' = i_trial + 1
  /\ i_trade' = 0
  /\ balance' = initial_capital * BalScale
  /\ balances' = << initial_capital * BalScale >>
  /\ max_consec_win' = 0
  /\ max_consec_loss' = 0
  /\ current_win' = 0
  /\ current_loss' = 0
  /\ peak' = initial_capital * BalScale
  /\ max_dd' = 0
  /\ pc' = "trade"
  /\ UNCHANGED << widgets, form_configured, gate, shown, n_simulations,
                  results, drawdowns, consecutive_wins_list,
                  consecutive_losses_list, reduction >>

\* One trade (106-123).
Trade ==
  /\ pc = "trade"
  /\ i_trade < n_trades
  /\ i_trade' = i_trade + 1
  /\ \E d \in Draws :
       LET win == IsWin(d)
           b == TradeBalance(win, balance)
           cw == NextCurrentWin(win, current_win)
           cl == NextCurrentLoss(win, current_loss)
           pk == NextPeak(peak, b)
       IN  /\ balance' = b
           /\ current_win' = cw
           /\ current_loss' = cl
           /\ max_consec_win' = Max2(max_consec_win, cw)
           /\ max_consec_loss' = Max2(max_consec_loss, cl)
           /\ peak' = pk
           /\ max_dd' = Max2(max_dd, Drawdown(pk, b))
           /\ balances' = AppendBalance(balances, b)
  /\ UNCHANGED << widgets, form_configured, pc, gate, shown, ensemble,
                  reduction >>

\* The end of one trial (125-128).
EndTrial ==
  /\ pc = "trade"
  /\ i_trade = n_trades
  /\ results' = Append(results, balances)
  /\ drawdowns' = Append(drawdowns, max_dd)
  /\ consecutive_wins_list' = Append(consecutive_wins_list, max_consec_win)
  /\ consecutive_losses_list' =
       Append(consecutive_losses_list, max_consec_loss)
  /\ pc' = "trial"
  /\ UNCHANGED << widgets, form_configured, gate, shown, trial, i_trial,
                  n_simulations, reduction >>

\* The reduction of the ensemble and the results on the page (130-185).
Reduce ==
  /\ pc = "trial"
  /\ i_trial = n_simulations
  /\ LET end_balances == EndBalances(results)
     IN  /\ best_result' = end_balances[ArgMax(end_balances)]
         /\ worst_result' = end_balances[ArgMin(end_balances)]
         /\ median_result' = Median(end_balances)
         /\ best_path' = results[ArgMax(end_balances)]
         /\ worst_path' = results[ArgMin(end_balances)]
         /\ \E order \in ArgSorts(end_balances) :
              median_path' = results[order[MedianPos(Len(end_balances))]]
         /\ best_return' = Return(end_balances[ArgMax(end_balances)])
         /\ worst_return' = Return(end_balances[ArgMin(end_balances)])
         /\ median_return' = Return(Median(end_balances))
  /\ expectancy_r' = Expectancy
  /\ avg_drawdown' = AvgDrawdown(drawdowns)
  /\ avg_max_win' = IntMean(consecutive_wins_list)
  /\ avg_max_loss' = IntMean(consecutive_losses_list)
  /\ shown' = shown \cup {"results"}
  /\ pc' = "done"
  /\ UNCHANGED << widgets, form_configured, gate, trial, ensemble >>

Next ==
  \/ EditWidget
  \/ Click
  \/ CheckEmail
  \/ SubmitEmail
  \/ AfterSubmit
  \/ StartTrial
  \/ Trade
  \/ EndTrial
  \/ Reduce

Spec == Init /\ [][Next]_vars

----------------------------------------------------------------------------
(***************************************************************************)
(* What a path says about its trades.  A win multiplies the balance by     *)
(* more than 1 and a loss by less than 1, so step k of a path (from        *)
(* balance k to balance k + 1) was a win exactly when the balance rose.    *)
(***************************************************************************)
Steps(path) == 1..(Len(path) - 1)

Rose(path, k) == path[k + 1] > path[k]

NonDecreasing(path) == \A k \in Steps(path) : path[k + 1] >= path[k]

StrictlyIncreasing(path) == \A k \in Steps(path) : path[k + 1] > path[k]

StrictlyDecreasing(path) == \A k \in Steps(path) : path[k + 1] < path[k]

\* The lengths of the runs of consecutive steps that all rose (up = TRUE) or
\* all did not (up = FALSE).
RunLengths(path, up) ==
  { j - i + 1 : <<i, j>> \in
      { r \in Steps(path) \X Steps(path) :
          /\ r[1] <= r[2]
          /\ \A k \in r[1]..r[2] : Rose(path, k) = up } }

LongestRun(path, up) ==
  IF RunLengths(path, up) = {} THEN 0
  ELSE CHOOSE m \in RunLengths(path, up) :
         \A l \in RunLengths(path, up) : l <= m

\* The length of the run that ends with the last step of the path.
TrailingRun(path, up) ==
  LET n == Len(path) - 1
      ends == { i \in Steps(path) : \A k \in i..n : Rose(path, k) = up }
  IN  Cardinality(ends)

\* initial_capital * (num/Den)^n_trades, in balance units.
Compounded(num) ==
  ((initial_capital * BalScale) \div Pow(Den, n_trades)) * Pow(num, n_trades)

\* The parameters are inside the ranges of their widgets (57-62).
ParamsInRange ==
  /\ win_rate \in 0..100
  /\ risk_reward \in 1..10
  /\ risk_per_trade \in 1..10
  /\ n_trades \in Nat \ {0}
  /\ initial_capital >= 100

----------------------------------------------------------------------------
(***************************************************************************)
(* C1.  Every path a trial produces has exactly n_trades + 1 balances, its *)
(* first balance is initial_capital, and every balance in it is strictly   *)
(* positive; the same holds of the path a running trial has built so far,  *)
(* up to its length.                                                       *)
(***************************************************************************)
C1_PathShape ==
  /\ \A i \in 1..Len(results) :
       /\ Len(results[i]) = n_trades + 1
       /\ results[i][1] = initial_capital * BalScale
       /\ \A k \in 1..Len(results[i]) : results[i][k] > 0
  /\ pc = "trade" =>
       /\ Len(balances) = i_trade + 1
       /\ balances[1] = initial_capital * BalScale
       /\ \A k \in 1..Len(balances) : balances[k] > 0
       /\ balance = Last(balances)

\* A finished ensemble with a path that lost on each of three trades.
C1_Witness ==
  /\ pc = "done"
  /\ n_trades = 3
  /\ \E i \in 1..Len(results) : StrictlyDecreasing(results[i])

(***************************************************************************)
(* C7.  The maximum drawdown of every trial is a fraction within [0,1],    *)
(* the running peak is strictly positive whenever a drawdown is computed,  *)
(* and the maximum drawdown recorded for a path that never decreases is 0. *)
(***************************************************************************)
C7_Drawdown ==
  /\ pc = "trade" =>
       /\ peak > 0
       /\ 0 <= max_dd /\ max_dd <= DDScale
       /\ NonDecreasing(balances) => max_dd = 0
  /\ Len(drawdowns) = Len(results)
  /\ \A i \in 1..Len(results) :
       /\ 0 <= drawdowns[i] /\ drawdowns[i] <= DDScale
       /\ NonDecreasing(results[i]) => drawdowns[i] = 0

\* A finished ensemble with a path that only rose (drawdown 0) and a path
\* that fell (drawdown above 0).
C7_Witness ==
  /\ pc = "done"
  /\ n_trades >= 2
  /\ \E i, j \in 1..Len(results) :
       /\ StrictlyIncreasing(results[i]) /\ drawdowns[i] = 0
       /\ ~NonDecreasing(results[j]) /\ drawdowns[j] > 0

(***************************************************************************)
(* C8.  A win sets the current loss counter to 0 and increments the current*)
(* win counter, a loss does the symmetric update; the counters are the     *)
(* length of the run that ends with the last trade, and the recorded       *)
(* maxima are the lengths of the longest run of consecutive wins and of    *)
(* consecutive losses of the path.                                         *)
(***************************************************************************)
C8_Counters ==
  /\ pc = "trade" =>
       /\ current_win = TrailingRun(balances, TRUE)
       /\ current_loss = TrailingRun(balances, FALSE)
       /\ max_consec_win = LongestRun(balances, TRUE)
       /\ max_consec_loss = LongestRun(balances, FALSE)
  /\ Len(consecutive_wins_list) = Len(results)
  /\ Len(consecutive_losses_list) = Len(results)
  /\ \A i \in 1..Len(results) :
       /\ consecutive_wins_list[i] = LongestRun(results[i], TRUE)
       /\ consecutive_losses_list[i] = LongestRun(results[i], FALSE)

C8_TradeStep ==
  (pc = "trade" /\ i_trade' = i_trade + 1) =>
    IF balance' > balance
      THEN current_loss' = 0 /\ current_win' = current_win + 1
      ELSE current_win' = 0 /\ current_loss' = current_loss + 1

C8_Streaks == []C8_Counters /\ [][C8_TradeStep]_vars

\* A recorded trial of two trades, a win then a loss, with maxima 1 and 1.
C8_Witness ==
  /\ n_trades = 2
  /\ \E i \in 1..Len(results) :
       /\ Rose(results[i], 1) /\ ~Rose(results[i], 2)
       /\ consecutive_wins_list[i] = 1
       /\ consecutive_losses_list[i] = 1

(***************************************************************************)
(* C9.  With win_rate 0 every trade is a loss for every draw: every path   *)
(* is strictly decreasing and ends at initial_capital * (1 - r)^n_trades.  *)
(* With win_rate 100 every trade is a win: every path is strictly          *)
(* increasing and ends at initial_capital * (1 + r * risk_reward)^n_trades.*)
(***************************************************************************)
C9_BoundaryRates ==
  /\ win_rate = 0 =>
       /\ pc = "trade" => StrictlyDecreasing(balances)
       /\ \A i \in 1..Len(results) :
            /\ StrictlyDecreasing(results[i])
            /\ Last(results[i]) = Compounded(LossNum)
  /\ win_rate = 100 =>
       /\ pc = "trade" => StrictlyIncreasing(balances)
       /\ \A i \in 1..Len(results) :
            /\ StrictlyIncreasing(results[i])
            /\ Last(results[i]) = Compounded(WinNum)

\* A finished ensemble of several trials of three trades at win_rate 0.
C9_Witness ==
  /\ pc = "done"
  /\ win_rate = 0
  /\ n_trades = 3
  /\ Len(results) >= 2

----------------------------------------------------------------------------
(***************************************************************************)
(* What a sequence of final balances says, stated without sorting it.      *)
(***************************************************************************)
\* The value at 0-based position k of the values sorted ascending: the one
\* value with at most k values below it and more than k values not above.
RankValue(xs, k) ==
  CHOOSE v \in { xs[i] : i \in 1..Len(xs) } :
    /\ Cardinality({ i \in 1..Len(xs) : xs[i] < v }) <= k
    /\ Cardinality({ i \in 1..Len(xs) : xs[i] <= v }) > k

\* Every order of the indices in S.
RECURSIVE Permutations(_)
Permutations(S) ==
  IF S = {} THEN { <<>> }
  ELSE UNION { { <<x>> \o p : p \in Permutations(S \ {x}) } : x \in S }

\* The sequence xs with its elements in the order p.
Permuted(xs, p) == [i \in 1..Len(xs) |-> xs[p[i]]]

(***************************************************************************)
(* C3.  After the ensemble has run, the final balance of best_path is at   *)
(* least, and that of worst_path at most, the final balance of every       *)
(* trial, and the final balance of median_path is the value at 0-based     *)
(* position floor(n_simulations/2) of the final balances sorted ascending. *)
(***************************************************************************)
C3_Representatives ==
  pc = "done" =>
    /\ \A i \in 1..Len(results) :
         /\ Last(best_path) >= Last(results[i])
         /\ Last(worst_path) <= Last(results[i])
    /\ Last(median_path) =
         RankValue(EndBalances(results), n_simulations \div 2)

\* A finished ensemble of three trials whose best, median and worst final
\* balances all differ.
C3_Witness ==
  /\ pc = "done"
  /\ n_simulations = 3
  /\ Last(best_path) > Last(median_path)
  /\ Last(median_path) > Last(worst_path)

(***************************************************************************)
(* C4, as claimed.  For an even n_simulations the final balance of         *)
(* median_path is the lower of the two middle values of the final balances *)
(* sorted ascending, and median_result is the average of the two.          *)
(***************************************************************************)
C4_LowerMedian ==
  (pc = "done" /\ n_simulations % 2 = 0) =>
    /\ Last(median_path) =
         RankValue(EndBalances(results), n_simulations \div 2 - 1)
    /\ 2 * median_result =
         RankValue(EndBalances(results), n_simulations \div 2 - 1)
           + RankValue(EndBalances(results), n_simulations \div 2)

(***************************************************************************)
(* C4, amended.  For an even n_simulations the final balance of            *)
(* median_path is the upper of the two middle values of the final balances *)
(* sorted ascending, and median_result is the average of the two.          *)
(***************************************************************************)
C4_UpperMedian ==
  (pc = "done" /\ n_simulations % 2 = 0) =>
    /\ Last(median_path) =
         RankValue(EndBalances(results), n_simulations \div 2)
    /\ Last(median_path) >=
         RankValue(EndBalances(results), n_simulations \div 2 - 1)
    /\ 2 * median_result =
         RankValue(EndBalances(results), n_simulations \div 2 - 1)
           + RankValue(EndBalances(results), n_simulations \div 2)

\* A finished ensemble of four trials whose two middle final balances
\* differ: median_path ends at the upper one, median_result lies between.
C4_Witness ==
  /\ pc = "done"
  /\ n_simulations = 4
  /\ RankValue(EndBalances(results), 1) < RankValue(EndBalances(results), 2)
  /\ Last(median_path) = RankValue(EndBalances(results), 2)
  /\ median_result < Last(median_path)

(***************************************************************************)
(* C5.  The result does not depend on the order in which the trials ran:   *)
(* for every permutation of the trials, the reduction of the permuted      *)
(* ensemble gives the same best_path and worst_path, can give the same     *)
(* median_path, and gives the same summary metrics.                        *)
(***************************************************************************)
C5_OrderIndependent ==
  pc = "done" =>
    \A p \in Permutations(1..Len(results)) :
      LET rs == Permuted(results, p)
          e == EndBalances(rs)
      IN  /\ best_path = rs[ArgMax(e)]
          /\ worst_path = rs[ArgMin(e)]
          /\ \E order \in ArgSorts(e) :
               median_path = rs[order[MedianPos(Len(e))]]
          /\ best_result = e[ArgMax(e)]
          /\ worst_result = e[ArgMin(e)]
          /\ median_result = Median(e)
          /\ best_return = Return(e[ArgMax(e)])
          /\ worst_return = Return(e[ArgMin(e)])
          /\ median_return = Return(Median(e))
          /\ avg_drawdown = AvgDrawdown(Permuted(drawdowns, p))
          /\ avg_max_win = IntMean(Permuted(consecutive_wins_list, p))
          /\ avg_max_loss = IntMean(Permuted(consecutive_losses_list, p))

(***************************************************************************)
(* C10.  In every run the steps are ordered email check, email submission, *)
(* simulation.  The submission is attempted only for a non-empty email     *)
(* that matches the pattern; a trial runs only after the submission        *)
(* returned success; a run that fails either check stops with an error,    *)
(* with no trial run and no result shown; and no step of the gate changes  *)
(* a simulation parameter.                                                 *)
(***************************************************************************)
InGate == pc \in {"check_email", "submit", "submitted"}

InSimulation == pc \in {"trial", "trade", "done"}

C10_GateState ==
  /\ (pc \in {"submit", "submitted"} \/ posted) =>
       email # <<>> /\ EmailMatches(email)
  /\ (InSimulation \/ i_trial > 0 \/ "results" \in shown) =>
       ok /\ posted /\ "success" \in shown
  /\ pc = "stopped" =>
       /\ i_trial = 0 /\ results = <<>> /\ balances = <<>>
       /\ "results" \notin shown
       /\ \/ "error_email" \in shown /\ ~posted
          \/ "error_submit" \in shown /\ ~ok

\* What every step that changes the state does.
C10_GateStep ==
  /\ pc' = "check_email" => Waiting
  /\ pc' = "submit" => pc = "check_email"
  /\ pc' = "submitted" => pc = "submit"
  /\ (pc' = "trial" /\ i_trial' = 0) => (pc = "submitted" /\ ok)
  /\ (pc' = "trade" /\ i_trial' = 1 /\ i_trade' = 0) => pc = "trial"
  /\ (pc = "check_email" /\ (email = <<>> \/ ~EmailMatches(email))) =>
       pc' = "stopped"
  /\ (pc = "submitted" /\ ~ok) => pc' = "stopped"
  /\ InGate => params' = params

C10_Gate == []C10_GateState /\ [][C10_GateStep]_vars

\* A run that passed both checks and showed its results.
C10_Witness ==
  /\ pc = "done"
  /\ ok /\ posted
  /\ "results" \in shown

============================================================================
